---- MODULE Spec2Model ----
(***************************************************************************)
(* Model of the Permit Agent service (src/main.py): a FastAPI application  *)
(* with three routes (GET /, GET /health, POST /ask) served by one event   *)
(* loop.  root and health are plain functions, which the framework runs in *)
(* its thread pool; ask is a coroutine, which runs on the event loop       *)
(* itself and calls the synchronous OpenAI client from there.              *)
(*                                                                         *)
(* Text is a sequence of tokens (TLA+ strings); a text of the upstream     *)
(* answer is a sequence of one-character tokens.  Python's None and the    *)
(* values that can stand where None can are tagged records.                *)
(***************************************************************************)
EXTENDS Integers, Sequences, FiniteSets, TLC

VARIABLES
    OPENAI_API_KEY, \* result of os.getenv("OPENAI_API_KEY") at import time
    client,         \* the module-level client handle
    pc,             \* per request: position of its handling
    route,          \* per request: the route it addresses
    body,           \* per request: the decoded JSON body
    entered,        \* per request: the body of ask() has started running
    calls,          \* per request: the arguments of each create() call made
    upstream,       \* per request: what its create() call produced
    response,       \* per request: the HTTP response
    loop            \* the request whose task occupies the event loop, or 0

vars == <<OPENAI_API_KEY, client, pc, route, body, entered, calls, upstream,
          response, loop>>

-----------------------------------------------------------------------------
(* Bounds *)

MaxReq == 2   \* number of requests in a run
MaxLen == 3   \* longest upstream answer text, in characters

Reqs == 1..MaxReq

-----------------------------------------------------------------------------
(* Values *)

None == [tag |-> "None"]

Text(s) == [tag |-> "str", s |-> s]

Whitespace == {" ", "\n"}

Alphabet == {" ", "a"}

RECURSIVE TextsOfLen(_)
TextsOfLen(n) ==
    IF n = 0 THEN {<<>>}
    ELSE {Append(t, c) : t \in TextsOfLen(n - 1), c \in Alphabet}

Texts == UNION {TextsOfLen(n) : n \in 0..MaxLen}

\* values of the environment variable: unset, set to "", set to a key
EnvValues == {None, Text(<<>>), Text(<<"sk-test">>)}

Questions == {"", "fence"}

\* JSON bodies of a POST /ask: without the question field, or with it
Bodies == {[fields |-> {}]} \cup
          {[fields |-> {"question"}, question |-> q] : q \in Questions}

Routes == {"/", "/health", "/ask"}

-----------------------------------------------------------------------------
(* Startup: lines 13-20 *)

\* Python truthiness of getenv's result: None and "" are falsy
Truthy(v) == v # None /\ v.s # <<>>

MakeClientIfSet(key) == IF key # None THEN [tag |-> "OpenAI", api_key |-> key] ELSE None

MakeClient(key) == IF Truthy(key) THEN [tag |-> "OpenAI", api_key |-> key] ELSE None

-----------------------------------------------------------------------------
(* Request validation: PermitRequest *)

ValidateLax(b) ==
    IF "question" \in b.fields
    THEN [ok |-> TRUE, req |-> [question |-> b.question]]
    ELSE [ok |-> TRUE, req |-> [question |-> ""]]

PermitRequest(b) ==
    IF "question" \in b.fields
    THEN [ok |-> TRUE, req |-> [question |-> b.question]]
    ELSE [ok |-> FALSE,
          error |-> [status |-> 422,
                     body |-> [detail |-> <<"missing", "body.question">>]]]

-----------------------------------------------------------------------------
(* The static routes *)

root == [status |-> 200,
         body |-> [message |-> "Permit Agent service is running. Use /docs for interactive API docs or POST /ask with JSON {\"question\":\"...\"}."]]

healthOfClient == [status |-> IF client = None THEN 503 ELSE 200,
                   body |-> [ok |-> client # None]]

health == [status |-> 200, body |-> [ok |-> TRUE]]

-----------------------------------------------------------------------------
(* ask: the pure parts *)

HTTPException(status_code, detail) ==
    [status |-> status_code, body |-> [detail |-> detail]]

MisconfiguredDetail == <<"Server misconfigured: ", "OPENAI_API_KEY not set", ".">>

NeverUnconfigured(c) == FALSE

ClientIsNone(c) == c = None

Messages(req) ==
    << [role |-> "system",
        content |-> "You are a helpful permitting assistant. Answer clearly and concisely in plain text. If you're unsure, advise checking with the local building department."],
       [role |-> "user", content |-> req.question] >>

CreateArgs(req) ==
    [model |-> "gpt-4o-mini", messages |-> Messages(req),
     temperature |-> "0.2", max_tokens |-> 800]

RECURSIVE lstrip(_)
lstrip(s) ==
    IF s # <<>> /\ Head(s) \in Whitespace THEN lstrip(Tail(s)) ELSE s

RECURSIVE rstrip(_)
rstrip(s) ==
    IF s # <<>> /\ s[Len(s)] \in Whitespace
    THEN rstrip(SubSeq(s, 1, Len(s) - 1)) ELSE s

stripLeadingOnly(s) == lstrip(s)

strip(s) == rstrip(lstrip(s))

\* str(completion): the repr of the response object
ReprContent(c) ==
    IF c = None THEN <<"None">>
    ELSE IF c.tag = "str" THEN <<"'">> \o c.s \o <<"'">>
    ELSE <<"[]">>

ReprChoice(ch) ==
    IF ch.message = None THEN <<"Choice(message=None)">>
    ELSE <<"Choice(message=ChatCompletionMessage(content=">>
         \o ReprContent(ch.message.content) \o <<"))">>

RECURSIVE ReprChoices(_)
ReprChoices(chs) ==
    IF chs = <<>> THEN <<>>
    ELSE ReprChoice(Head(chs)) \o
         (IF Len(chs) > 1 THEN <<", ">> ELSE <<>>) \o ReprChoices(Tail(chs))

str(completion) ==
    <<"ChatCompletion(choices=[">> \o ReprChoices(completion.choices) \o <<"])">>

\* completion.choices[0].message.content.strip() raises IndexError on an
\* empty list and AttributeError on None or on a value without strip
ExtractionRaises(completion) ==
    \/ Len(completion.choices) = 0
    \/ completion.choices[1].message = None
    \/ completion.choices[1].message.content = None
    \/ completion.choices[1].message.content.tag # "str"


IndexOrAttributeError(completion) ==
    IF Len(completion.choices) = 0
    THEN [type |-> "IndexError", msg |-> "list index out of range"]
    ELSE [type |-> "AttributeError", msg |-> "object has no attribute"]

\* lines 80-86: the stripped first-choice text, or str(completion)
Content(completion) ==
    IF ExtractionRaises(completion) THEN str(completion)
    ELSE strip(completion.choices[1].message.content.s)

DetailWithoutType(e) == <<"AI error: ", e.msg>>

\* line 94: f"AI error: {type(e).__name__}: {e}"
AIErrorDetail(e) == <<"AI error: ", e.type, ": ", e.msg>>

AskResultNoFallback(o) ==
    IF o.tag = "raise" THEN HTTPException(500, AIErrorDetail(o.exc))
    ELSE IF ExtractionRaises(o.completion)
    THEN HTTPException(500, AIErrorDetail(IndexOrAttributeError(o.completion)))
    ELSE [status |-> 200, body |-> [answer |-> Content(o.completion)]]

\* lines 58-94 from the return of create() on
AskResult(o) ==
    IF o.tag = "raise" THEN HTTPException(500, AIErrorDetail(o.exc))
    ELSE [status |-> 200, body |-> [answer |-> Content(o.completion)]]

-----------------------------------------------------------------------------
(* What the completion API can produce for one create() call *)

Contents == {Text(t) : t \in Texts} \cup {None, [tag |-> "list"]}

ChatMessages == {None} \cup {[content |-> c] : c \in Contents}

Completions ==
    {[choices |-> <<>>]} \cup
    {[choices |-> <<[message |-> m]>>] : m \in ChatMessages} \cup
    {[choices |-> <<[message |-> m], [message |-> [content |-> Text(<<"a">>)]]>>] :
        m \in {None, [content |-> Text(<<" ", "a", "a">>)]}}

Exceptions ==
    {[type |-> "APIConnectionError", msg |-> "Connection error."],
     [type |-> "APITimeoutError", msg |-> "Request timed out."],
     [type |-> "RuntimeError", msg |-> ""]}

Outcomes == {[tag |-> "return", completion |-> c] : c \in Completions} \cup
            {[tag |-> "raise", exc |-> e] : e \in Exceptions}

-----------------------------------------------------------------------------
(* State machine *)

Init ==
    /\ OPENAI_API_KEY \in EnvValues
    /\ client = MakeClient(OPENAI_API_KEY)
    /\ pc = [r \in Reqs |-> "new"]
    /\ route = [r \in Reqs |-> "-"]
    /\ body = [r \in Reqs |-> [fields |-> {}]]
    /\ entered = [r \in Reqs |-> FALSE]
    /\ calls = [r \in Reqs |-> <<>>]
    /\ upstream = [r \in Reqs |-> None]
    /\ response = [r \in Reqs |-> None]
    /\ loop = 0

\* a client sends a request; it waits on the socket for the event loop
Arrive(r) ==
    /\ pc[r] = "new"
    /\ \A r0 \in 1..(r - 1) : pc[r0] # "new"
    /\ \E rt \in Routes, b \in Bodies :
          /\ rt # "/ask" => b.fields = {}
          /\ route' = [route EXCEPT ![r] = rt]
          /\ body' = [body EXCEPT ![r] = b]
    /\ pc' = [pc EXCEPT ![r] = "queued"]
    /\ UNCHANGED <<OPENAI_API_KEY, client, entered, calls, upstream, response, loop>>

\* the loop hands a request for a plain-function route to the thread pool
SubmitSync(r) ==
    /\ loop = 0
    /\ pc[r] = "queued"
    /\ route[r] \in {"/", "/health"}
    /\ pc' = [pc EXCEPT ![r] = "threadpool"]
    /\ UNCHANGED <<OPENAI_API_KEY, client, route, body, entered, calls, upstream,
                   response, loop>>

Root(r) ==
    /\ pc[r] = "threadpool"
    /\ route[r] = "/"
    /\ response' = [response EXCEPT ![r] = root]
    /\ pc' = [pc EXCEPT ![r] = "ready"]
    /\ UNCHANGED <<OPENAI_API_KEY, client, route, body, entered, calls, upstream, loop>>

Health(r) ==
    /\ pc[r] = "threadpool"
    /\ route[r] = "/health"
    /\ response' = [response EXCEPT ![r] = health]
    /\ pc' = [pc EXCEPT ![r] = "ready"]
    /\ UNCHANGED <<OPENAI_API_KEY, client, route, body, entered, calls, upstream, loop>>

\* the loop sends the result of a thread-pool call
Respond(r) ==
    /\ loop = 0
    /\ pc[r] = "ready"
    /\ pc' = [pc EXCEPT ![r] = "done"]
    /\ UNCHANGED <<OPENAI_API_KEY, client, route, body, entered, calls, upstream,
                   response, loop>>

\* POST /ask whose body does not validate: the framework answers
AskReject(r) ==
    /\ loop = 0
    /\ pc[r] = "queued"
    /\ route[r] = "/ask"
    /\ ~PermitRequest(body[r]).ok
    /\ response' = [response EXCEPT ![r] = PermitRequest(body[r]).error]
    /\ pc' = [pc EXCEPT ![r] = "done"]
    /\ UNCHANGED <<OPENAI_API_KEY, client, route, body, entered, calls, upstream, loop>>

\* ask(), lines 54-56
AskMisconfigured(r) ==
    /\ loop = 0
    /\ pc[r] = "queued"
    /\ route[r] = "/ask"
    /\ PermitRequest(body[r]).ok
    /\ ClientIsNone(client)
    /\ entered' = [entered EXCEPT ![r] = TRUE]
    /\ response' = [response EXCEPT ![r] = HTTPException(500, MisconfiguredDetail)]
    /\ pc' = [pc EXCEPT ![r] = "done"]
    /\ UNCHANGED <<OPENAI_API_KEY, client, route, body, calls, upstream, loop>>

CreateUnlessAnswered(r, req) ==
    IF \E r2 \in Reqs \ {r} :
          /\ pc[r2] = "done" /\ route[r2] = "/ask" /\ calls[r2] # <<>>
          /\ Messages(req) = calls[r2][1].messages
    THEN calls[r]
    ELSE Append(calls[r], CreateArgs(req))

\* lines 72-77: the calls request r has made once create() is invoked
Create(r, req) == Append(calls[r], CreateArgs(req))

\* ask(), lines 58-77: up to the invocation of create(), which is a plain
\* (not awaited) call, so the task keeps the loop's thread until it returns
AskCall(r) ==
    /\ loop = 0
    /\ pc[r] = "queued"
    /\ route[r] = "/ask"
    /\ PermitRequest(body[r]).ok
    /\ ~ClientIsNone(client)
    /\ entered' = [entered EXCEPT ![r] = TRUE]
    /\ IF client = None
       THEN \* client.chat raises AttributeError inside the try block
            /\ response' = [response EXCEPT ![r] =
                  HTTPException(500, AIErrorDetail(
                      [type |-> "AttributeError",
                       msg |-> "'NoneType' object has no attribute 'chat'"]))]
            /\ pc' = [pc EXCEPT ![r] = "done"]
            /\ UNCHANGED <<calls, loop>>
       ELSE /\ calls' = [calls EXCEPT ![r] = Create(r, PermitRequest(body[r]).req)]
            /\ pc' = [pc EXCEPT ![r] = "calling"]
            /\ loop' = r
            /\ UNCHANGED response
    /\ UNCHANGED <<OPENAI_API_KEY, client, route, body, upstream>>

AskReturnResetsClient(r) ==
    /\ pc[r] = "calling"
    /\ loop = r
    /\ \E o \in Outcomes :
          /\ upstream' = [upstream EXCEPT ![r] = o]
          /\ response' = [response EXCEPT ![r] = AskResult(o)]
          /\ client' = IF o.tag = "raise" THEN None ELSE client
    /\ pc' = [pc EXCEPT ![r] = "done"]
    /\ loop' = 0
    /\ UNCHANGED <<OPENAI_API_KEY, route, body, entered, calls>>

\* ask(), lines 72-94: create() returns or raises, the handler finishes
AskReturn(r) ==
    /\ pc[r] = "calling"
    /\ loop = r
    /\ \E o \in Outcomes :
          /\ upstream' = [upstream EXCEPT ![r] = o]
          /\ response' = [response EXCEPT ![r] = AskResult(o)]
    /\ pc' = [pc EXCEPT ![r] = "done"]
    /\ loop' = 0
    /\ UNCHANGED <<OPENAI_API_KEY, client, route, body, entered, calls>>

\* the steps by which the event loop takes up a waiting request
Serve(r) == SubmitSync(r) \/ AskReject(r) \/ AskMisconfigured(r) \/ AskCall(r)

Next ==
    \E r \in Reqs :
        \/ Arrive(r)
        \/ SubmitSync(r)
        \/ Root(r)
        \/ Health(r)
        \/ Respond(r)
        \/ AskReject(r)
        \/ AskMisconfigured(r)
        \/ AskCall(r)
        \/ AskReturn(r)

Spec == Init /\ [][Next]_vars

-----------------------------------------------------------------------------
(* Properties *)

\* a POST /ask whose body carries a question
ValidAsk(r) == route[r] = "/ask" /\ "question" \in body[r].fields

Contains(seq, tok) == \E i \in 1..Len(seq) : seq[i] = tok

\* a is t without its leading and trailing whitespace
IsTrimOf(a, t) ==
    /\ \E i \in 0..Len(t), j \in 0..Len(t) :
          /\ i + Len(a) + j = Len(t)
          /\ \A k \in 1..i : t[k] \in Whitespace
          /\ \A k \in 1..j : t[Len(t) - j + k] \in Whitespace
          /\ \A k \in 1..Len(a) : a[k] = t[i + k]
    /\ a # <<>> => a[1] \notin Whitespace /\ a[Len(a)] \notin Whitespace

\* the first choice's message text of an upstream result, when it has one
HasFirstText(c) ==
    /\ c.choices # <<>>
    /\ c.choices[1].message # None
    /\ c.choices[1].message.content # None
    /\ c.choices[1].message.content.tag = "str"

\* C1: with the client handle unconfigured, every POST /ask carrying a
\* question, whatever the question, is answered 500 with a detail containing
\* "OPENAI_API_KEY not set", and no outbound call is started or made.
C1_UnconfiguredFailsFast ==
    client = None =>
        \A r \in Reqs :
            /\ calls[r] = <<>>
            /\ pc[r] # "calling"
            /\ (ValidAsk(r) /\ pc[r] = "done") =>
                  /\ response[r].status = 500
                  /\ Contains(response[r].body.detail, "OPENAI_API_KEY not set")

C1_Witness ==
    /\ OPENAI_API_KEY = None
    /\ \E r1, r2 \in Reqs :
          /\ ValidAsk(r1) /\ pc[r1] = "done"
          /\ ValidAsk(r2) /\ pc[r2] = "done"
          /\ body[r1].question # body[r2].question

\* C2: a valid request with a non-empty question whose upstream call
\* returns first-choice text t is answered 200 with exactly {"answer": t
\* without its surrounding whitespace}.
C2_AnswerIsTrimmedText ==
    \A r \in Reqs :
        (/\ ValidAsk(r) /\ pc[r] = "done"
         /\ body[r].question # ""
         /\ upstream[r] # None
         /\ upstream[r].tag = "return"
         /\ HasFirstText(upstream[r].completion)) =>
            /\ response[r].status = 200
            /\ DOMAIN response[r].body = {"answer"}
            /\ IsTrimOf(response[r].body.answer,
                        upstream[r].completion.choices[1].message.content.s)

C2_Witness ==
    \E r \in Reqs :
        /\ ValidAsk(r) /\ pc[r] = "done" /\ body[r].question # ""
        /\ upstream[r] # None
        /\ upstream[r].tag = "return"
        /\ HasFirstText(upstream[r].completion)
        /\ upstream[r].completion.choices[1].message.content.s = <<" ", "a", " ">>
        /\ response[r].body.answer = <<"a">>

\* C3: when the upstream call raises an exception, the response is 500 with
\* detail "AI error: <ExceptionType>: <message>" and carries no answer.
C3_UpstreamErrorIs500 ==
    \A r \in Reqs :
        (/\ pc[r] = "done"
         /\ upstream[r] # None
         /\ upstream[r].tag = "raise") =>
            /\ client # None
            /\ response[r].status = 500
            /\ DOMAIN response[r].body = {"detail"}
            /\ response[r].body.detail =
                  <<"AI error: ", upstream[r].exc.type, ": ", upstream[r].exc.msg>>

C3_Witness ==
    \E r \in Reqs :
        /\ pc[r] = "done"
        /\ upstream[r] # None
        /\ upstream[r].tag = "raise"
        /\ upstream[r].exc.type = "APITimeoutError"
        /\ response[r].status = 500

\* C4: a POST /ask body without the question field is rejected with a 4xx
\* status before the body of ask() runs and without any outbound call,
\* whether or not the client is configured.
C4_MissingQuestionRejected ==
    \A r \in Reqs :
        (/\ route[r] = "/ask"
         /\ "question" \notin body[r].fields
         /\ pc[r] \notin {"new", "queued"}) =>
            /\ pc[r] = "done"
            /\ response[r].status \in 400..499
            /\ ~entered[r]
            /\ calls[r] = <<>>

C4_Witness ==
    /\ client # None
    /\ \E r \in Reqs :
          /\ route[r] = "/ask"
          /\ "question" \notin body[r].fields
          /\ pc[r] = "done"

\* C5: while one /ask request waits on its outbound call, the event loop is
\* free to take up any other request that has arrived.
C5_LoopFreeDuringCall ==
    \A r, r2 \in Reqs :
        (pc[r] = "calling" /\ pc[r2] = "queued") => ENABLED Serve(r2)

\* What the code does instead: from the moment create() is invoked until
\* it returns, no other request is taken up, sent or finished.
C5_LoopHeldDuringCall ==
    [][\A r \in Reqs :
          pc[r] = "calling" =>
              \A r2 \in Reqs \ {r} :
                  \/ pc'[r2] = pc[r2]
                  \/ pc[r2] = "new"
                  \/ pc[r2] = "threadpool"]_vars

\* C6: when the upstream call returns but the first choice's text cannot
\* be extracted (no choices, no message, content that is not text), the
\* response is 200 with the stringified upstream result as the answer.
C6_ExtractionFallback ==
    \A r \in Reqs :
        (/\ pc[r] = "done"
         /\ upstream[r] # None
         /\ upstream[r].tag = "return"
         /\ ~HasFirstText(upstream[r].completion)) =>
            /\ response[r].status = 200
            /\ response[r].body = [answer |-> str(upstream[r].completion)]

C6_Witness ==
    \E r1, r2 \in Reqs :
        /\ pc[r1] = "done" /\ pc[r2] = "done"
        /\ upstream[r1] = [tag |-> "return", completion |-> [choices |-> <<>>]]
        /\ upstream[r2] = [tag |-> "return",
                           completion |-> [choices |-> <<[message |-> None]>>]]
        /\ response[r1].status = 200
        /\ response[r2].status = 200

\* the requests that passed validation with the client configured and have
\* reached the call
Called == {r \in Reqs : ValidAsk(r) /\ client # None
                        /\ pc[r] \in {"calling", "done"}}

RECURSIVE TotalCalls(_)
TotalCalls(n) == IF n = 0 THEN 0 ELSE Len(calls[n]) + TotalCalls(n - 1)

\* C7: every POST /ask that passes validation with the client configured
\* makes exactly one outbound call, whatever the outcome and whatever was
\* asked before; n such requests make n calls.
C7_OneCallPerRequest ==
    /\ \A r \in Reqs : Len(calls[r]) = IF r \in Called THEN 1 ELSE 0
    /\ TotalCalls(MaxReq) = Cardinality(Called)

C7_Witness ==
    \E r1, r2 \in Reqs :
        /\ r1 # r2
        /\ pc[r1] = "done" /\ pc[r2] = "done"
        /\ r1 \in Called /\ r2 \in Called
        /\ body[r1].question = body[r2].question
        /\ response[r1].status = 200
        /\ TotalCalls(MaxReq) = 2

\* C8: GET /health answers {"ok": true} with status 200 in every state.
C8_HealthAlwaysOk ==
    \A r \in Reqs :
        (route[r] = "/health" /\ pc[r] \in {"ready", "done"}) =>
            response[r] = [status |-> 200, body |-> [ok |-> TRUE]]

C8_Witness ==
    /\ client = None
    /\ \E r1, r2 \in Reqs :
          /\ r1 < r2
          /\ ValidAsk(r1) /\ pc[r1] = "done" /\ response[r1].status = 500
          /\ route[r2] = "/health" /\ pc[r2] = "done"

\* C9: no step of any request changes the client handle or the key it was
\* made from.
C9_HandleNeverChanges ==
    [][client' = client /\ OPENAI_API_KEY' = OPENAI_API_KEY]_vars

C9_Witness ==
    /\ client = MakeClient(OPENAI_API_KEY)
    /\ client # None
    /\ \E r1, r2 \in Reqs :
          /\ pc[r1] = "done" /\ pc[r2] = "done"
          /\ ValidAsk(r1) /\ response[r1].status = 500
          /\ ValidAsk(r2) /\ response[r2].status = 200

\* C10: a key set to the empty string leaves the client unconfigured, the
\* service runs, and every valid POST /ask gets exactly the 500
\* "Server misconfigured: OPENAI_API_KEY not set." error with no outbound call.
C10_EmptyKeyIsAbsent ==
    OPENAI_API_KEY = Text(<<>>) =>
        /\ client = None
        /\ \A r \in Reqs :
              /\ calls[r] = <<>>
              /\ (ValidAsk(r) /\ pc[r] = "done") =>
                    response[r] =
                        [status |-> 500,
                         body |-> [detail |-> <<"Server misconfigured: ",
                                                "OPENAI_API_KEY not set", ".">>]]

C10_Witness ==
    /\ OPENAI_API_KEY = Text(<<>>)
    /\ \E r \in Reqs : ValidAsk(r) /\ pc[r] = "done" /\ entered[r]

====
